---------------------------- MODULE Spec2Model ----------------------------
(***************************************************************************)
(* Model of usr/local/bin/vzdump-hook-script.py, the Proxmox vzdump hook   *)
(* that reports backup phases to a Healthchecks service.                   *)
(*                                                                         *)
(* One run of the script is one invocation: the module-level code          *)
(* (configuration, task id, cluster info, slug suffix, phase check) is the *)
(* action Startup, main() is one action per phase, and Exit ends the       *)
(* process.  The only state that outlives an invocation is the pending     *)
(* error log ERRLOG.                                                       *)
(*                                                                         *)
(* Texts are sequences of pieces (strings); the text is the concatenation  *)
(* of its pieces, so an f-string is \o.  Texts that are normalised         *)
(* character by character (slug prefixes and suffixes) are sequences of    *)
(* one-character pieces.                                                   *)
(*                                                                         *)
(* Left out: what info() and print() write to standard output.             *)
(* Assumed: the task identifier is usable as a file name in the temp       *)
(* directory, so that appending to ERRLOG itself never fails.              *)
(***************************************************************************)
EXTENDS Integers, Sequences, FiniteSets, TLC

VARIABLES
    \* ---- the file system and the process
    errlog,         \* ERRLOG, the pending error log: [exists, content]
    errlog0,        \* ERRLOG as the running invocation found it
    stderr,         \* what the invocation wrote to standard error
    calls,          \* the HTTP requests the invocation sent, in order
    exited,         \* the process has ended
    exit_code,      \* the code it ended with (sys.exit's argument)
    \* ---- the invocation
    pc,             \* "idle", "main" (module level done), "done" (exited)
    ninv,           \* invocations of the job started so far
    history,        \* how the job's earlier invocations ended: see Events
    osenv,          \* os.environ as vzdump set it: VMTYPE, HOSTNAME, ...
    domain_cmd,     \* what `hostname --domain` did in get_domain
    domain_cmd_main,\* what it did in main's backup-start branch
    \* ---- module globals of the script
    PHASE, MODE, VMID, CLUSTER, NODE,
    HC_BASE_DOMAIN, HC_PING_DOMAIN, HC_RW_API_KEY, HC_PING_KEY,
    HC_SLUG_SUFFIX,
    \* ---- the configuration layers, resolved on their own
    cfg_in, cfg_pc,
    \* ---- hc_ping, applied on its own
    ping_args, ping_pc,
    \* ---- slugify, applied on its own
    slug_text, slug_suffix, slug_out, slug_again, slug_pc

run_vars == <<errlog, errlog0, stderr, calls, exited, exit_code>>
hc_vars == <<HC_BASE_DOMAIN, HC_PING_DOMAIN, HC_RW_API_KEY, HC_PING_KEY>>
inv_vars == <<pc, ninv, history, osenv, domain_cmd, domain_cmd_main>>
glob_vars == <<PHASE, MODE, VMID, CLUSTER, NODE, HC_SLUG_SUFFIX>>
cfg_vars == <<cfg_in, cfg_pc>>
ping_vars == <<ping_args, ping_pc>>
slug_vars == <<slug_text, slug_suffix, slug_out, slug_again, slug_pc>>

vars == <<run_vars, inv_vars, hc_vars, glob_vars, cfg_vars, ping_vars, slug_vars>>

(***************************************************************************)
(* Bounds                                                                  *)
(***************************************************************************)
\* invocations of the script in one job
MaxInvocations == 2
\* longest text handed to slugify on its own
MaxLen == 2
\* longest suffix handed to slugify on its own
MaxSuffixLen == 1

(***************************************************************************)
(* Texts                                                                   *)
(***************************************************************************)
Lowercase == {"a","b","c","d","e","f","g","h","i","j","k","l","m",
              "n","o","p","q","r","s","t","u","v","w","x","y","z"}
Uppercase == {"A","B","C","D","E","F","G","H","I","J","K","L","M",
              "N","O","P","Q","R","S","T","U","V","W","X","Y","Z"}
Digits == {"0","1","2","3","4","5","6","7","8","9"}

\* the characters the pattern [a-zA-Z0-9_-] matches
SlugChars == Lowercase \cup Uppercase \cup Digits \cup {"_", "-"}

\* characters texts are drawn from: letters of both cases, a digit, the two
\* punctuation characters slugs keep, the two slugify rewrites, and two
\* characters (ASCII and non-ASCII) outside the pattern
Alphabet == {"a", "Z", "7", "_", "-", " ", ".", "/", "é"}

RECURSIVE ReplaceChar(_, _, _)
\* str.replace(old, new) for a one-character old
ReplaceChar(text, old, new) ==
    IF text = <<>> THEN <<>>
    ELSE (IF Head(text) = old THEN new ELSE <<Head(text)>>)
         \o ReplaceChar(Tail(text), old, new)

\* re.sub(r"[^a-zA-Z0-9_-]", "_", text)
SubDisallowed(text) ==
    [i \in 1..Len(text) |-> IF text[i] \in SlugChars THEN text[i] ELSE "_"]

\* a bug that forgets the final re.sub
slugify_nosub(text, suffix) ==
    LET t1 == IF suffix # <<>> THEN text \o <<" ">> \o suffix ELSE text
        t2 == ReplaceChar(t1, " ", <<"_", "_">>)
    IN  ReplaceChar(t2, ".", <<"-">>)

slugify(text, suffix) ==
    LET t1 == IF suffix # <<>> THEN text \o <<" ">> \o suffix ELSE text
        t2 == ReplaceChar(t1, " ", <<"_", "_">>)
        t3 == ReplaceChar(t2, ".", <<"-">>)
    IN  SubDisallowed(t3)

(***************************************************************************)
(* Configuration: defaults, the environment file, the command line         *)
(***************************************************************************)
DEFAULT_HC_BASE_DOMAIN == <<"https://healthchecks.cmbc.be">>
DEFAULT_HC_PING_DOMAIN == <<"https://healthchecks.cmbc.be/ping">>
DEFAULT_HC_RW_API_KEY == <<"eJy4I0V41OJ7jM1tQy5gjtBgyJ9mz1Kd">>
DEFAULT_HC_PING_KEY == <<"oiB2qNQV2uGsYSxQAo3rxA">>
ENV_FILE == "/etc/pve/healthchecks/variables.env"

Keys == {"HC_BASE_DOMAIN", "HC_PING_DOMAIN", "HC_RW_API_KEY", "HC_PING_KEY"}

DefaultOf(key) ==
    CASE key = "HC_BASE_DOMAIN" -> DEFAULT_HC_BASE_DOMAIN
      [] key = "HC_PING_DOMAIN" -> DEFAULT_HC_PING_DOMAIN
      [] key = "HC_RW_API_KEY" -> DEFAULT_HC_RW_API_KEY
      [] key = "HC_PING_KEY" -> DEFAULT_HC_PING_KEY

\* a variable os.environ does not hold, an option argparse was not given
Unset == <<"<unset>">>

Quotes == {"'", "\""}

RECURSIVE LStripQuotes(_)
LStripQuotes(text) ==
    IF text # <<>> /\ Head(text) \in Quotes THEN LStripQuotes(Tail(text)) ELSE text

RECURSIVE RStripQuotes(_)
RStripQuotes(text) ==
    IF text # <<>> /\ text[Len(text)] \in Quotes
    THEN RStripQuotes(SubSeq(text, 1, Len(text) - 1))
    ELSE text

\* value.strip('\'"')
StripQuotes(text) == LStripQuotes(RStripQuotes(text))

RECURSIVE LoadLines(_, _)
\* the loop of load_env_file over the key=value lines of the file
LoadLines(environ, lines) ==
    IF lines = <<>> THEN environ
    ELSE LoadLines([environ EXCEPT ![Head(lines).key] = StripQuotes(Head(lines).value)],
                   Tail(lines))

\* a file is [exists, lines]; a file that cannot be read contributes nothing
load_env_file(environ, file) ==
    IF file.exists THEN LoadLines(environ, file.lines) ELSE environ

\* os.environ.get(key, default)
EnvironGet(environ, key, default) ==
    IF environ[key] # Unset THEN environ[key] ELSE default

\* the option of parse_args that carries a key
ArgOf(key) ==
    CASE key = "HC_BASE_DOMAIN" -> "hc_domain"
      [] key = "HC_PING_DOMAIN" -> "hc_ping_domain"
      [] key = "HC_RW_API_KEY" -> "hc_rw_key"
      [] key = "HC_PING_KEY" -> "hc_ping_key"

\* the command line with none of the options
NoArgs ==
    [hc_domain |-> Unset, hc_ping_domain |-> Unset, hc_rw_key |-> Unset,
     hc_ping_key |-> Unset, env_file |-> ENV_FILE]

AbsentFile == [exists |-> FALSE, lines |-> <<>>]

\* Python's `a or b` on an optional string
Or(a, b) == IF a # Unset /\ a # <<>> THEN a ELSE b

\* lines 80-122: the four values the rest of the script works with.
\* in: [environ, fixed_file, args, named_file]; named_file is the file
\* args.env_file names.  The values are read from os.environ after the
\* first load only; the second load changes os.environ and nothing else.
ResolveConfig(in) ==
    LET environ1 == load_env_file(in.environ, in.fixed_file)
        from_env == [k \in Keys |-> EnvironGet(environ1, k, DefaultOf(k))]
        environ2 == IF in.args.env_file # "" /\ in.args.env_file # ENV_FILE
                    THEN load_env_file(environ1, in.named_file)
                    ELSE environ1
    IN  [k \in Keys |-> Or(in.args[ArgOf(k)], from_env[k])]

(***************************************************************************)
(* More text helpers                                                       *)
(***************************************************************************)
\* a Python string as a text: the empty string has no pieces
T(s) == IF s = "" THEN <<>> ELSE <<s>>

Whitespace == {" ", "\n", "\t"}

RECURSIVE LStrip(_)
LStrip(text) ==
    IF text # <<>> /\ Head(text) \in Whitespace THEN LStrip(Tail(text)) ELSE text

RECURSIVE RStrip(_)
RStrip(text) ==
    IF text # <<>> /\ text[Len(text)] \in Whitespace
    THEN RStrip(SubSeq(text, 1, Len(text) - 1))
    ELSE text

\* str.strip()
Strip(text) == LStrip(RStrip(text))

UpperSeq == <<"A","B","C","D","E","F","G","H","I","J","K","L","M",
              "N","O","P","Q","R","S","T","U","V","W","X","Y","Z">>
LowerSeq == <<"a","b","c","d","e","f","g","h","i","j","k","l","m",
              "n","o","p","q","r","s","t","u","v","w","x","y","z">>

\* str.lower(), piece by piece (the literal pieces of the script that reach
\* it are lower case already)
Lower(text) ==
    [i \in 1..Len(text) |->
        IF \E k \in 1..Len(UpperSeq) : UpperSeq[k] = text[i]
        THEN LowerSeq[CHOOSE k \in 1..Len(UpperSeq) : UpperSeq[k] = text[i]]
        ELSE text[i]]

\* strings str.isdigit() accepts, among the reports the model draws
DigitStrings == {"0", "7", "42"}

(***************************************************************************)
(* The process: error, warn                                                *)
(***************************************************************************)
DEFAULT_ERROR_CODE == 666

\* the exit status the parent sees: sys.exit(n) keeps the low 8 bits
ExitStatus(code) == code % 256

\* the state an invocation works on
Running(log) ==
    [errlog |-> log, stderr |-> <<>>, calls |-> <<>>,
     exited |-> FALSE, exit_code |-> 0]

NoFile == [exists |-> FALSE, content |-> <<>>]

\* a bug that opens the log with "w": the write replaces what was there
AppendLog_truncate(log, text) == [exists |-> TRUE, content |-> text]

\* open(ERRLOG, "a"); f.write(text)
AppendLog(log, text) == [exists |-> TRUE, content |-> log.content \o text]

ErrorMsg(task, msg, code) ==
    <<"FATAL: '", task, "' failed with exit code ", ToString(code), ".">>
    \o (IF msg # <<>> THEN <<"\nCONTEXT: ">> \o msg ELSE <<>>)

\* a bug that logs the failure and carries on
error_noexit(st, task, msg, code) ==
    IF st.exited THEN st
    ELSE [st EXCEPT !.stderr = @ \o ErrorMsg(task, msg, code) \o <<"\n">>,
                    !.errlog = AppendLog(@, ErrorMsg(task, msg, code) \o <<"\n">>)]

error(st, task, msg, code) ==
    IF st.exited THEN st
    ELSE [st EXCEPT !.stderr = @ \o ErrorMsg(task, msg, code) \o <<"\n">>,
                    !.errlog = AppendLog(@, ErrorMsg(task, msg, code) \o <<"\n">>),
                    !.exited = TRUE,
                    !.exit_code = code]

WarnMsg(task, msg) ==
    <<"WARNING: '", task, "' issue.">>
    \o (IF msg # <<>> THEN <<"\nCONTEXT: ">> \o msg ELSE <<>>)

\* a bug that makes a warning end the process as an error does
warn_fatal(st, task, msg) ==
    IF st.exited THEN st
    ELSE [st EXCEPT !.stderr = @ \o WarnMsg(task, msg) \o <<"\n">>,
                    !.errlog = AppendLog(@, WarnMsg(task, msg) \o <<"\n">>),
                    !.exited = TRUE,
                    !.exit_code = DEFAULT_ERROR_CODE]

warn(st, task, msg) ==
    IF st.exited THEN st
    ELSE [st EXCEPT !.stderr = @ \o WarnMsg(task, msg) \o <<"\n">>,
                    !.errlog = AppendLog(@, WarnMsg(task, msg) \o <<"\n">>)]

\* an exception nothing catches: traceback on standard error, status 1
Uncaught(st, what) ==
    IF st.exited THEN st
    ELSE [st EXCEPT !.stderr = @ \o <<"Traceback: ", what, "\n">>,
                    !.exited = TRUE,
                    !.exit_code = 1]

\* `if cond: error(task, msg)` with the default exit code
Fail(st, cond, task, msg) ==
    IF cond THEN error(st, task, msg, DEFAULT_ERROR_CODE) ELSE st

(***************************************************************************)
(* The monitoring client                                                   *)
(***************************************************************************)
\* how a request can end: requests raises a RequestException for the last
\* three (raise_for_status for a non-2xx response)
NetOutcomes == {"ok", "connection_error", "timeout", "http_error"}
NetFailures == NetOutcomes \ {"ok"}

\* str(e) of an exception: text of the library, one opaque piece
ExcText(exception) == <<"<str(e)>">>

NoPayload ==
    [name |-> <<>>, slug |-> <<>>, channels |-> "", timeout |-> 0, tz |-> <<>>,
     grace |-> 0, desc |-> <<>>, tags |-> <<>>, unique |-> <<>>]

\* one HTTP request, with what the script gave requests.post / requests.get
Request(op, url, apikey, slug_prefix, report, body, payload, outcome) ==
    [op |-> op, url |-> url, apikey |-> apikey, slug_prefix |-> slug_prefix,
     report |-> report, body |-> body, payload |-> payload,
     outcome |-> outcome]

Send(st, req) == IF st.exited THEN st ELSE [st EXCEPT !.calls = Append(@, req)]

\* the state of a file hc_ping is given
FileStates == {"missing", "not_file", "unreadable", "read_error", "ok"}

\* the bytes hc_ping keeps of a file
TailBytes == 100000

Max(a, b) == IF a >= b THEN a ELSE b

\* f.seek(max(0, size - 100000)); f.read(): the bytes from there to the end
FileTail(file, size) ==
    IF size = 0 THEN <<>>
    ELSE <<"<bytes ", ToString(Max(0, size - TailBytes)), "..",
           ToString(size), " of ", file, ">">>

\* env: what the file system and the network do: [file_state, file_size, net]
hc_ping_body(st, slug_prefix, report, file, data, pingkey, url, env, exclusive) ==
    LET s1 == Fail(st, slug_prefix = <<>>, "HC Ping",
                   <<"Slug prefix parameter is required">>)
        s2 == Fail(s1, pingkey = <<>>, "HC Ping", <<"Ping key is required">>)
        s3 == Fail(s2, report # "" /\ report \notin {"", "start", "fail", "log"}
                       /\ report \notin DigitStrings,
                   "HC Ping",
                   <<"Report status must be blank, start, fail, log, or a positive number. Got - '",
                     report, "'">>)
        s4 == Fail(s3, exclusive /\ file # "" /\ data # <<>>, "HC Ping",
                   <<"File and Data arguments are mutually exclusive">>)
        slug == slugify(slug_prefix, HC_SLUG_SUFFIX)
        ping_url == url \o <<"/">> \o pingkey \o <<"/">> \o slug
                    \o (IF report # "" THEN <<"/", report>> ELSE <<>>)
        s5 == Fail(s4, file # "" /\ env.file_state = "missing",
                   "Check file exists", <<"File ", file, " not found">>)
        s6 == Fail(s5, file # "" /\ env.file_state = "not_file",
                   "Check file type", <<file, " is not a file">>)
        s7 == Fail(s6, file # "" /\ env.file_state = "unreadable",
                   "Check file permissions", <<"Cannot read ", file>>)
        s8 == Fail(s7, file # "" /\ env.file_state = "read_error",
                   "Read Log File", ExcText("OSError"))
        body == IF file # "" THEN FileTail(file, env.file_size) ELSE data
        s9 == Send(s8, Request("ping", ping_url, <<>>, slug_prefix, report,
                               body, NoPayload, env.net))
    IN  Fail(s9, env.net # "ok",
             IF report # ""
             THEN "Healthcheck Ping w/Data (" \o report \o ")"
             ELSE "Healthcheck Ping w/Data (success)",
             ExcText(env.net))

\* a bug that drops the check that file and data exclude each other
hc_ping_nomutex(st, slug_prefix, report, file, data, pingkey, url, env) ==
    hc_ping_body(st, slug_prefix, report, file, data, pingkey, url, env, FALSE)

hc_ping(st, slug_prefix, report, file, data, pingkey, url, env) ==
    hc_ping_body(st, slug_prefix, report, file, data, pingkey, url, env, TRUE)

(***************************************************************************)
(* hc_create, get_dashboard_url                                            *)
(***************************************************************************)
\* a bug that does not look at the answer to the request
hc_create_unchecked(st, name, slug_prefix, grace, description, tags, channels, timeout, apikey, url, env) ==
    LET s1 == Fail(st, name = <<>>, "HC Create", <<"Name parameter is required">>)
        s2 == Fail(s1, slug_prefix = <<>>, "HC Create",
                   <<"Slug prefix parameter is required">>)
        s3 == Fail(s2, apikey = <<>>, "HC Create", <<"API key is required">>)
        payload == [name |-> name, slug |-> slugify(slug_prefix, HC_SLUG_SUFFIX),
                    channels |-> channels, timeout |-> timeout,
                    tz |-> IF env.tz = Unset THEN <<"UTC">> ELSE Strip(env.tz),
                    grace |-> grace, desc |-> description,
                    tags |-> Lower(Strip(tags)), unique |-> <<"name">>]
    IN  Send(s3, Request("upsert", url \o <<"/api/v3/checks/">>, apikey,
                         slug_prefix, "", <<>>, payload, env.net))

\* env: [tz, net]; tz is what timedatectl printed, or Unset when it failed
hc_create(st, name, slug_prefix, grace, description, tags, channels, timeout, apikey, url, env) ==
    LET s1 == Fail(st, name = <<>>, "HC Create", <<"Name parameter is required">>)
        s2 == Fail(s1, slug_prefix = <<>>, "HC Create",
                   <<"Slug prefix parameter is required">>)
        s3 == Fail(s2, apikey = <<>>, "HC Create", <<"API key is required">>)
        slug == slugify(slug_prefix, HC_SLUG_SUFFIX)
        timezone == IF env.tz = Unset THEN <<"UTC">> ELSE Strip(env.tz)
        payload == [name |-> name, slug |-> slug, channels |-> channels,
                    timeout |-> timeout, tz |-> timezone, grace |-> grace,
                    desc |-> description, tags |-> Lower(Strip(tags)),
                    unique |-> <<"name">>]
        api_url == url \o <<"/api/v3/checks/">>
        s4 == Send(s3, Request("upsert", api_url, apikey, slug_prefix, "",
                               <<>>, payload, env.net))
    IN  Fail(s4, env.net # "ok", "Healthcheck Creation", ExcText(env.net))

\* ping_url.replace("ping", "checks"), on a URL cut at each "ping"
ReplacePing(url) ==
    [i \in 1..Len(url) |-> IF url[i] = "ping" THEN "checks" ELSE url[i]]

\* env: [net, ping_url]; net can also be "no_check", an answer that lists no
\* check.  Gives [st, url].
get_dashboard_url(st, slug_prefix, apikey, base_url, env) ==
    IF st.exited THEN [st |-> st, url |-> <<>>]
    ELSE
    LET slug == slugify(slug_prefix, HC_SLUG_SUFFIX)
        url == base_url \o <<"/api/v3/checks/?slug=">> \o slug
        s1 == Send(st, Request("lookup", url, apikey, slug_prefix, "", <<>>,
                               NoPayload, env.net))
    IN  IF env.net # "ok"
        THEN [st |-> error(s1, "Get Dashboard URL", ExcText(env.net),
                           DEFAULT_ERROR_CODE),
              url |-> <<>>]
        ELSE [st |-> s1, url |-> ReplacePing(env.ping_url) \o <<"/details">>]

(***************************************************************************)
(* Tags                                                                    *)
(***************************************************************************)
\* each gives [st, tag]; tag is <<>> for None
add_tag(st, key, value) ==
    IF st.exited THEN [st |-> st, tag |-> <<>>]
    ELSE IF key = ""
    THEN [st |-> error(st, "Key Validation", <<"Empty key">>, DEFAULT_ERROR_CODE),
          tag |-> <<>>]
    ELSE IF value = <<>> THEN [st |-> st, tag |-> <<>>]
    ELSE IF Strip(value) # <<>>
    THEN [st |-> st,
          tag |-> <<" ", key, "=">> \o ReplaceChar(value, " ", <<"_">>)]
    ELSE [st |-> st, tag |-> <<>>]

\* file: [state, content], state as for hc_ping's file; name is the last
\* component of filepath, the key when none is given
add_tag_from_file(st, filepath, name, key, file) ==
    IF st.exited THEN [st |-> st, tag |-> <<>>]
    ELSE IF file.state = "missing"
    THEN [st |-> error(st, "Check file exists", <<"File ", filepath, " not found">>,
                       DEFAULT_ERROR_CODE),
          tag |-> <<>>]
    ELSE IF file.state = "not_file"
    THEN [st |-> error(st, "Check file type", <<filepath, " is not a file">>,
                       DEFAULT_ERROR_CODE),
          tag |-> <<>>]
    ELSE IF file.state = "unreadable"
    THEN [st |-> error(st, "Check file permissions", <<"Cannot read ", filepath>>,
                       DEFAULT_ERROR_CODE),
          tag |-> <<>>]
    ELSE add_tag(st, IF key = "" THEN name ELSE key, Strip(file.content))

\* cmd: [state, stdout], state "not_found", "failed" or "ok"
add_tag_from_cmd(st, key, cmd_name, cmd) ==
    IF st.exited THEN [st |-> st, tag |-> <<>>]
    ELSE IF cmd.state = "not_found"
    THEN [st |-> error(st, "Validating command",
                       <<"Command ", cmd_name, " not found">>, DEFAULT_ERROR_CODE),
          tag |-> <<>>]
    ELSE IF cmd.state = "failed"
    THEN [st |-> error(st, "Tag Command Execution", ExcText("CalledProcessError"),
                       DEFAULT_ERROR_CODE),
          tag |-> <<>>]
    ELSE add_tag(st, key, Strip(cmd.stdout))

(***************************************************************************)
(* Host context: task id, cluster and node, domain, jq                     *)
(***************************************************************************)
\* the arguments of the parent process: one job, one task identifier
TASK_ID == "task UPID:pve:0003E8F4:vzdump::root@pam:"

\* get_task_id runs before error is defined: its except branch raises a
\* NameError that nothing catches
get_task_id(st, outcome) ==
    IF st.exited THEN st
    ELSE IF outcome = "exception" THEN Uncaught(st, "NameError: error")
    ELSE st

\* the first of the indices a loop with `break` stops at, 0 when there is none
FirstIndex(indices) ==
    IF indices = {} THEN 0
    ELSE CHOOSE i \in indices : \A j \in indices : i <= j

\* pvesh: [state, data, hostname]; state "failed" (non-zero exit), "bad_json"
\* or "ok"; data the entries [type, name, local]; hostname what the bare
\* hostname command prints.  Gives [st, cluster, node].
get_cluster_info(st, pvesh) ==
    IF st.exited THEN [st |-> st, cluster |-> <<>>, node |-> <<>>]
    ELSE IF pvesh.state = "failed"
    THEN [st |-> error(st, "Get Cluster Info",
                       <<"Failed to execute pvesh: ", "<stderr>">>,
                       DEFAULT_ERROR_CODE),
          cluster |-> <<>>, node |-> <<>>]
    ELSE IF pvesh.state = "bad_json"
    THEN [st |-> error(st, "Get Cluster Info", ExcText("JSONDecodeError"),
                       DEFAULT_ERROR_CODE),
          cluster |-> <<>>, node |-> <<>>]
    ELSE
    LET c == FirstIndex({i \in DOMAIN pvesh.data :
                             pvesh.data[i].type = "cluster"})
        n == FirstIndex({i \in DOMAIN pvesh.data :
                             pvesh.data[i].type = "node" /\ pvesh.data[i].local = 1})
        cluster == IF c = 0 THEN <<"s","t","a","n","d","a","l","o","n","e">>
                   ELSE IF pvesh.data[c].name = Unset
                   THEN <<"u","n","k","n","o","w","n","-","c","l","u","s","t","e","r">>
                   ELSE pvesh.data[c].name
        found == IF n = 0 \/ pvesh.data[n].name = Unset THEN <<>>
                 ELSE pvesh.data[n].name
        node == IF found = <<>> THEN Strip(pvesh.hostname) ELSE found
    IN  [st |-> st, cluster |-> cluster, node |-> node]

\* cmd: [state, stdout]; state "ok", "nonzero" (the command ran and failed)
\* or "exception" (subprocess.run raised)
get_domain(cmd) ==
    IF cmd.state = "exception" THEN <<"l","o","c","a","l">>
    ELSE Strip(cmd.stdout)

\* jq: "present", or what installing it came to
check_jq_installed(st, jq) ==
    IF st.exited THEN st
    ELSE IF jq = "apt_failed"
    THEN error(st, "Installing jq", <<"apt install failed">>, DEFAULT_ERROR_CODE)
    ELSE IF jq = "dnf_failed"
    THEN error(st, "Installing jq", <<"dnf install failed">>, DEFAULT_ERROR_CODE)
    ELSE IF jq = "no_package_manager"
    THEN error(st, "Installing jq", <<"Unknown package manager">>,
               DEFAULT_ERROR_CODE)
    ELSE st

(***************************************************************************)
(* Module globals derived from the arguments and the environment           *)
(***************************************************************************)
NoEnv ==
    [VMTYPE |-> Unset, HOSTNAME |-> Unset, HOSTTYPE |-> Unset,
     DUMPDIR |-> Unset, STOREID |-> Unset]

\* a command that was not run
NotRun == [state |-> "not_run", stdout |-> <<>>]

\* a bug that names the host check otherwise
HC_HOST_SLUG_PREFIX_host == <<"h", "o", "s", "t">>

HC_HOST_SLUG_PREFIX == <<"j", "o", "b">>

VMTYPE == EnvironGet(osenv, "VMTYPE", <<"u","n","k","n","o","w","n">>)

HC_VM_SLUG_PREFIX == VMID \o <<"-">> \o VMTYPE

STORAGE == EnvironGet(osenv, "DUMPDIR", EnvironGet(osenv, "STOREID", <<>>))

\* f"{NODE.lower()}.{CLUSTER.lower()}.{get_domain().lower()}"
SlugSuffix(node, cluster, domain) ==
    Lower(node) \o <<".">> \o Lower(cluster) \o <<".">> \o Lower(domain)

(***************************************************************************)
(* Idle values of the parts a specification does not run                   *)
(***************************************************************************)
RunIdle ==
    /\ errlog = NoFile
    /\ errlog0 = NoFile
    /\ stderr = <<>>
    /\ calls = <<>>
    /\ exited = FALSE
    /\ exit_code = 0
    /\ pc = "idle"
    /\ ninv = 0
    /\ history = {}
    /\ osenv = NoEnv
    /\ domain_cmd = NotRun
    /\ domain_cmd_main = NotRun
    /\ PHASE = ""
    /\ MODE = <<>>
    /\ VMID = <<>>
    /\ CLUSTER = <<>>
    /\ NODE = <<>>
    /\ HC_SLUG_SUFFIX = <<>>
    /\ HC_BASE_DOMAIN = DEFAULT_HC_BASE_DOMAIN
    /\ HC_PING_DOMAIN = DEFAULT_HC_PING_DOMAIN
    /\ HC_RW_API_KEY = DEFAULT_HC_RW_API_KEY
    /\ HC_PING_KEY = DEFAULT_HC_PING_KEY

CfgIdle ==
    /\ cfg_in = <<>>
    /\ cfg_pc = "idle"

PingIdle ==
    /\ ping_args = <<>>
    /\ ping_pc = "idle"

SlugIdle ==
    /\ slug_text = <<>>
    /\ slug_suffix = <<>>
    /\ slug_out = <<>>
    /\ slug_again = <<>>
    /\ slug_pc = "idle"

(***************************************************************************)
(* The job: invocations of the script, one after the other                 *)
(***************************************************************************)
KnownPhases ==
    {"job-init", "job-start", "backup-start", "pre-stop", "pre-restart",
     "post-restart", "backup-end", "backup-abort", "log-end", "job-end",
     "job-abort"}

JobPhases == {"job-init", "job-start", "job-end", "job-abort"}

\* the command lines vzdump gives the hook (phase alone for the job's
\* phases, phase mode vmid for a guest's), one with an unknown phase and one
\* with none
CommandLines ==
    {[phase |-> p, mode |-> <<>>, vmid |-> <<>>] :
        p \in JobPhases \cup {"", "pre-migrate"}}
    \cup {[phase |-> p, mode |-> <<"snapshot">>, vmid |-> <<"1","0","0">>] :
        p \in KnownPhases \ JobPhases}

\* an environment vzdump gives it, with VMTYPE, HOSTNAME and the storage
GuestEnv ==
    [NoEnv EXCEPT !.VMTYPE = <<"q","e","m","u">>,
                  !.HOSTNAME = <<"w","e","b"," ","1">>,
                  !.STOREID = <<"pbs">>]

\* a configuration that is a file at the fixed path and nothing else
FileConfig(lines) ==
    [environ |-> [k \in Keys |-> Unset],
     fixed_file |-> [exists |-> TRUE, lines |-> lines],
     args |-> NoArgs, named_file |-> AbsentFile]

NoConfig ==
    [environ |-> [k \in Keys |-> Unset], fixed_file |-> AbsentFile,
     args |-> NoArgs, named_file |-> AbsentFile]

\* what `hostname --domain` can do
DomainAnswers ==
    {[state |-> "ok", stdout |-> <<"L","a","n","\n">>],
     [state |-> "nonzero", stdout |-> <<>>],
     [state |-> "exception", stdout |-> <<>>]}

DomainOk == [state |-> "ok", stdout |-> <<"L","a","n","\n">>]

\* the hosts the hook runs on: the environment, the configuration in force
\* (nothing supplied, or a file that empties one of the keys) and what
\* `hostname --domain` does for get_domain
Hosts ==
    {[osenv |-> NoEnv, cfg |-> NoConfig, dom |-> DomainOk]}
    \cup {[osenv |-> GuestEnv, cfg |-> NoConfig, dom |-> d] : d \in DomainAnswers}
    \cup {[osenv |-> GuestEnv,
           cfg |-> FileConfig(<<[key |-> "HC_PING_KEY", value |-> <<>>]>>),
           dom |-> DomainOk],
          [osenv |-> NoEnv,
           cfg |-> FileConfig(<<[key |-> "HC_RW_API_KEY", value |-> <<"\"", "\"">>]>>),
           dom |-> DomainOk]}

\* what pvesh can answer
PveshAnswers ==
    {[state |-> "failed", data |-> <<>>, hostname |-> <<>>],
     [state |-> "bad_json", data |-> <<>>, hostname |-> <<>>],
     [state |-> "ok", hostname |-> <<"P","v","e","\n">>,
      data |-> <<[type |-> "node", name |-> <<"p","v","e","2">>, local |-> 0],
                 [type |-> "cluster", name |-> <<"L","a","b">>, local |-> 0],
                 [type |-> "node", name |-> <<"p","v","e","1">>, local |-> 1]>>]}

Init ==
    /\ RunIdle
    /\ CfgIdle
    /\ PingIdle
    /\ SlugIdle

Commit(st) ==
    /\ errlog' = st.errlog
    /\ stderr' = st.stderr
    /\ calls' = st.calls
    /\ exited' = st.exited
    /\ exit_code' = st.exit_code

\* the end of the script: status 0 unless it exited before
Finish(st) == IF st.exited THEN st ELSE [st EXCEPT !.exited = TRUE]

\* the answers to draw for a step: one is enough once the process has exited
Answers(st, all) == IF st.exited THEN {CHOOSE a \in all : TRUE} ELSE all

\* lines 57-243: everything the module does before main().
\* (\E x \in {e} : ... names the value of e, as LET does.)
Startup ==
    /\ pc = "idle"
    /\ ninv < MaxInvocations
    /\ \E host \in Hosts :
       \E conf \in {ResolveConfig(host.cfg)} :
       \E task \in {"ok", "exception"} :
       \E s1 \in {get_task_id(Running(errlog), task)} :
       \E cmdline \in CommandLines :
       \E pvesh \in Answers(s1, PveshAnswers) :
       \E ci \in {get_cluster_info(s1, pvesh)} :
       \E s3 \in {Fail(ci.st, cmdline.phase = "", "Arguments",
                       <<"Phase not provided">>)} :
           /\ Commit(s3)
           /\ HC_BASE_DOMAIN' = conf["HC_BASE_DOMAIN"]
           /\ HC_PING_DOMAIN' = conf["HC_PING_DOMAIN"]
           /\ HC_RW_API_KEY' = conf["HC_RW_API_KEY"]
           /\ HC_PING_KEY' = conf["HC_PING_KEY"]
           /\ CLUSTER' = ci.cluster
           /\ NODE' = ci.node
           /\ domain_cmd' = IF ci.st.exited THEN NotRun ELSE host.dom
           /\ HC_SLUG_SUFFIX' =
                 IF ci.st.exited THEN <<>>
                 ELSE SlugSuffix(ci.node, ci.cluster, get_domain(host.dom))
           /\ PHASE' = cmdline.phase
           /\ MODE' = cmdline.mode
           /\ VMID' = cmdline.vmid
           /\ osenv' = host.osenv
           /\ pc' = IF s3.exited THEN "done" ELSE "main"
    /\ errlog0' = errlog
    /\ ninv' = ninv + 1
    /\ history' = history
    /\ domain_cmd_main' = NotRun
    /\ UNCHANGED <<cfg_vars, ping_vars, slug_vars>>

\* the invocation as it stands
Cur ==
    [errlog |-> errlog, stderr |-> stderr, calls |-> calls,
     exited |-> exited, exit_code |-> exit_code]

\* what the phase branches leave alone
MainFrame ==
    /\ pc' = "done"
    /\ UNCHANGED <<errlog0, ninv, history, osenv, domain_cmd, hc_vars, glob_vars,
                   cfg_vars, ping_vars, slug_vars>>

JqStates == {"present", "installed", "apt_failed", "dnf_failed", "no_package_manager"}
TagFileStates == {"missing", "not_file", "unreadable", "ok"}
CmdStates == {"not_found", "failed", "ok"}
Timezones == {Unset, <<"Europe/Brussels", "\n">>}
Descriptions == {<<>>, <<" ", "First node", "\n">>}

\* the network, for a call that reads no file
Net(outcome) == [file_state |-> "ok", file_size |-> 0, net |-> outcome]

Ping(st, slug_prefix, report, data, net) ==
    hc_ping(st, slug_prefix, report, "", data, HC_PING_KEY, HC_PING_DOMAIN,
            Net(net))

\* f"{PHASE}: {HC_VM_SLUG_PREFIX}"
PhaseBody == <<PHASE, ": ">> \o HC_VM_SLUG_PREFIX

\* main, PHASE == "job-init" (lines 477-513)
JobInit ==
    /\ pc = "main" /\ PHASE = "job-init"
    /\ \E jq \in JqStates :
       \E s0 \in {check_jq_installed(Cur, jq)} :
       \E t1 \in {add_tag(s0, "cluster", CLUSTER)} :
       \E t2 \in {add_tag(t1.st, "node", EnvironGet(osenv, "HOSTNAME", <<>>))} :
       \E t3 \in {add_tag(t2.st, "storage", STORAGE)} :
       \E mid \in Answers(t3.st, TagFileStates) :
       \E t4 \in {add_tag_from_file(t3.st, "/etc/machine-id", "machine-id", "",
                                    [state |-> mid, content |-> <<"4f2a", "\n">>])} :
       \E arch \in Answers(t4.st, CmdStates) :
       \E t5 \in {add_tag_from_cmd(t4.st, "arch", "uname",
                                   [state |-> arch, stdout |-> <<"x86_64", "\n">>])} :
       \E kernel \in Answers(t5.st, CmdStates) :
       \E t6 \in {add_tag_from_cmd(t5.st, "kernel", "uname",
                                   [state |-> kernel, stdout |-> <<"6.8.12-pve", "\n">>])} :
       \E tags \in {t1.tag \o t2.tag \o t3.tag \o t4.tag \o t5.tag \o t6.tag} :
       \E desc \in Answers(t6.st, Descriptions), tz \in Answers(t6.st, Timezones),
          net \in Answers(t6.st, NetOutcomes) :
       \E s7 \in {hc_create(t6.st, HC_SLUG_SUFFIX, HC_HOST_SLUG_PREFIX, 7200,
                            Strip(desc), tags, "*", 86400, HC_RW_API_KEY,
                            HC_BASE_DOMAIN, [tz |-> tz, net |-> net])} :
           Commit(Finish(s7))
    /\ domain_cmd_main' = domain_cmd_main
    /\ MainFrame

\* main, PHASE == "job-start" (lines 477-480, 515-518)
JobStart ==
    /\ pc = "main" /\ PHASE = "job-start"
    /\ \E jq \in JqStates :
       \E s0 \in {check_jq_installed(Cur, jq)} :
       \E net \in Answers(s0, NetOutcomes) :
       \E s1 \in {Ping(s0, HC_HOST_SLUG_PREFIX, "start", <<>>, net)} :
           Commit(Finish(s1))
    /\ domain_cmd_main' = domain_cmd_main
    /\ MainFrame

\* main, PHASE == "backup-start" (lines 477-480, 520-575)
BackupStart ==
    /\ pc = "main" /\ PHASE = "backup-start"
    /\ \E jq \in JqStates :
       \E s0 \in {check_jq_installed(Cur, jq)} :
       \E t1 \in {add_tag(s0, "cluster", CLUSTER)} :
       \E host \in Answers(t1.st, CmdStates) :
       \E t2 \in {add_tag_from_cmd(t1.st, "node", "hostname",
                                   [state |-> host, stdout |-> <<"P","v","e","\n">>])} :
       \E t3 \in {add_tag(t2.st, "storage", STORAGE)} :
       \E t4 \in {add_tag(t3.st, "mode", MODE)} :
       \E t5 \in {add_tag(t4.st, "vmid", VMID)} :
       \E t6 \in {add_tag(t5.st, "hostname", EnvironGet(osenv, "HOSTNAME", <<>>))} :
       \E t7 \in {add_tag(t6.st, "type", EnvironGet(osenv, "HOSTTYPE", <<>>))} :
       \E t8 \in {add_tag(t7.st, "vmtype", VMTYPE)} :
       \E tags \in {t1.tag \o t2.tag \o t3.tag \o t4.tag \o t5.tag \o t6.tag
                    \o t7.tag \o t8.tag} :
       \E desc \in Answers(t8.st, Descriptions), dom \in Answers(t8.st, DomainAnswers) :
       \E description \in {IF VMTYPE \in {<<"q","e","m","u">>, <<"l","x","c">>}
                           THEN Strip(desc) ELSE <<>>} :
       \E s9 \in {IF dom.state = "exception"
                  THEN Uncaught(t8.st, "subprocess.run")
                  ELSE t8.st} :
       \E domain \in {Strip(dom.stdout)} :
       \E name \in {NODE \o <<".">> \o domain \o <<".">> \o VMTYPE \o <<".">>
                    \o VMID \o <<".">>
                    \o EnvironGet(osenv, "HOSTNAME", <<"u","n","k","n","o","w","n">>)} :
       \E tz \in Answers(s9, Timezones), net1 \in Answers(s9, NetOutcomes) :
       \E s10 \in {hc_create(s9, name, HC_VM_SLUG_PREFIX, 3600, description,
                             tags, "*", 86400, HC_RW_API_KEY, HC_BASE_DOMAIN,
                             [tz |-> tz, net |-> net1])} :
       \E net2 \in Answers(s10, NetOutcomes) :
       \E s11 \in {Ping(s10, HC_VM_SLUG_PREFIX, "start", <<>>, net2)} :
       \E net3 \in Answers(s11, NetOutcomes) :
       \E s12 \in {Ping(s11, HC_HOST_SLUG_PREFIX, "log", PhaseBody, net3)} :
           /\ Commit(Finish(s12))
           /\ domain_cmd_main' = IF t8.st.exited THEN NotRun ELSE dom
    /\ MainFrame

\* main, PHASE in pre-stop, pre-restart, post-restart (lines 477-480, 577-583)
GuestLog ==
    /\ pc = "main" /\ PHASE \in {"pre-stop", "pre-restart", "post-restart"}
    /\ \E jq \in JqStates :
       \E s0 \in {check_jq_installed(Cur, jq)} :
       \E net1 \in Answers(s0, NetOutcomes) :
       \E s1 \in {Ping(s0, HC_VM_SLUG_PREFIX, "log", PhaseBody, net1)} :
       \E net2 \in Answers(s1, NetOutcomes) :
       \E s2 \in {Ping(s1, HC_HOST_SLUG_PREFIX, "log", PhaseBody, net2)} :
           Commit(Finish(s2))
    /\ domain_cmd_main' = domain_cmd_main
    /\ MainFrame

\* main, PHASE == "backup-end" (lines 477-480, 585-592)
BackupEnd ==
    /\ pc = "main" /\ PHASE = "backup-end"
    /\ \E jq \in JqStates :
       \E s0 \in {check_jq_installed(Cur, jq)} :
       \E net1 \in Answers(s0, NetOutcomes) :
       \E s1 \in {Ping(s0, HC_VM_SLUG_PREFIX, "", PhaseBody, net1)} :
       \E net2 \in Answers(s1, NetOutcomes) :
       \E s2 \in {Ping(s1, HC_HOST_SLUG_PREFIX, "log", PhaseBody, net2)} :
           Commit(Finish(s2))
    /\ domain_cmd_main' = domain_cmd_main
    /\ MainFrame

\* the ping URLs the service can give for a check
PingUrls == {<<"https://hc.example/", "ping", "/3f6c-uuid">>}

\* a bug that records the abort without the URL
AbortLine_nourl(url) ==
    <<TASK_ID, " - ">> \o VMID \o <<" - Backup Abort - ", "\n">>

\* the line backup-abort records
AbortLine(url) ==
    <<TASK_ID, " - ">> \o VMID \o <<" - Backup Abort - ">> \o url \o <<"\n">>

\* open(ERRLOG, "a"); f.write(text), by a process still running
Write(st, text) ==
    IF st.exited THEN st ELSE [st EXCEPT !.errlog = AppendLog(@, text)]

\* main, PHASE == "backup-abort" (lines 477-480, 594-606)
BackupAbort ==
    /\ pc = "main" /\ PHASE = "backup-abort"
    /\ \E jq \in JqStates :
       \E s0 \in {check_jq_installed(Cur, jq)} :
       \E net1 \in Answers(s0, NetOutcomes) :
       \E s1 \in {Ping(s0, HC_VM_SLUG_PREFIX, "fail", PhaseBody, net1)} :
       \E net2 \in Answers(s1, NetOutcomes) :
       \E s2 \in {Ping(s1, HC_HOST_SLUG_PREFIX, "log", PhaseBody, net2)} :
       \E net3 \in Answers(s2, NetOutcomes \cup {"no_check"}), ping_url \in PingUrls :
       \E d \in {get_dashboard_url(s2, HC_VM_SLUG_PREFIX, HC_RW_API_KEY,
                                   HC_BASE_DOMAIN,
                                   [net |-> net3, ping_url |-> ping_url])} :
       \E s4 \in {Write(d.st, AbortLine(d.url))} :
           Commit(Finish(s4))
    /\ domain_cmd_main' = domain_cmd_main
    /\ MainFrame

\* what grep printed of the guest's log
BackupLogs == {<<>>, <<"INFO: backup finished", "\n">>}

\* main, PHASE == "log-end" (lines 477-480, 608-622)
LogEnd ==
    /\ pc = "main" /\ PHASE = "log-end"
    /\ \E jq \in JqStates :
       \E s0 \in {check_jq_installed(Cur, jq)} :
       \E grep \in Answers(s0, {"ok", "exception"}) :
       \E s1 \in {Fail(s0, grep = "exception", "Read Log File", ExcText("OSError"))} :
       \E backup_log \in Answers(s1, BackupLogs), net \in Answers(s1, NetOutcomes) :
       \E s2 \in {Ping(s1, HC_VM_SLUG_PREFIX, "log", backup_log, net)} :
           Commit(Finish(s2))
    /\ domain_cmd_main' = domain_cmd_main
    /\ MainFrame

\* a bug that leaves the log where it is
Unlink_keep(st) == st

\* ERRLOG.unlink()
Unlink(st) == IF st.exited THEN st ELSE [st EXCEPT !.errlog = NoFile]

\* main, PHASE == "job-end" (lines 477-480, 624-635)
JobEnd ==
    /\ pc = "main" /\ PHASE = "job-end"
    /\ \E jq \in JqStates :
       \E s0 \in {check_jq_installed(Cur, jq)} :
       \E net \in Answers(s0, NetOutcomes) :
       \E s1 \in {IF s0.errlog.exists
                  THEN Unlink(Ping(s0, HC_HOST_SLUG_PREFIX, "fail",
                                   s0.errlog.content, net))
                  ELSE Ping(s0, HC_HOST_SLUG_PREFIX, "", T(TASK_ID), net)} :
           Commit(Finish(s1))
    /\ domain_cmd_main' = domain_cmd_main
    /\ MainFrame

\* main, PHASE == "job-abort" (lines 477-480, 637-646)
JobAbort ==
    /\ pc = "main" /\ PHASE = "job-abort"
    /\ \E jq \in JqStates :
       \E s0 \in {check_jq_installed(Cur, jq)} :
       \E s1 \in {Write(s0, <<TASK_ID, " - Job Abort", "\n">>)} :
       \E net \in Answers(s1, NetOutcomes) :
       \E s2 \in {Ping(s1, HC_HOST_SLUG_PREFIX, "fail", s1.errlog.content, net)} :
           Commit(Finish(s2))
    /\ domain_cmd_main' = domain_cmd_main
    /\ MainFrame

\* main, any other PHASE (lines 477-480, 648-652)
UnknownPhase ==
    /\ pc = "main" /\ PHASE \notin KnownPhases
    /\ \E jq \in JqStates :
       \E s0 \in {check_jq_installed(Cur, jq)} :
       \E net \in Answers(s0, NetOutcomes) :
       \E s1 \in {Ping(s0, HC_HOST_SLUG_PREFIX, "fail", <<"UNKNOWN: ", PHASE>>, net)} :
       \E s2 \in {warn(s1, "Unknown Phase", T(PHASE))} :
           Commit(Finish(s2))
    /\ domain_cmd_main' = domain_cmd_main
    /\ MainFrame

\* the process is gone: only ERRLOG is left of it
\* how the invocation that is over ended: through error() ("error"), by an
\* exception nothing caught ("crash"), having warned ("warning"), having
\* written to ERRLOG ("wrote"); and the two phases the job's end looks at
Events ==
    {e \in {"error"} : exit_code = DEFAULT_ERROR_CODE}
    \cup {e \in {"crash"} : exit_code = 1}
    \cup {e \in {"warning"} : \E i \in 1..Len(stderr) : stderr[i] = "WARNING: '"}
    \cup {e \in {"wrote"} : errlog.exists /\ errlog.content # errlog0.content}
    \cup {e \in {"backup-abort", "job-end"} : PHASE = e}

Exit ==
    /\ pc = "done"
    /\ pc' = "idle"
    /\ history' = history \cup Events
    /\ errlog0' = errlog
    /\ stderr' = <<>>
    /\ calls' = <<>>
    /\ exited' = FALSE
    /\ exit_code' = 0
    /\ osenv' = NoEnv
    /\ domain_cmd' = NotRun
    /\ domain_cmd_main' = NotRun
    /\ PHASE' = ""
    /\ MODE' = <<>>
    /\ VMID' = <<>>
    /\ CLUSTER' = <<>>
    /\ NODE' = <<>>
    /\ HC_SLUG_SUFFIX' = <<>>
    /\ HC_BASE_DOMAIN' = DEFAULT_HC_BASE_DOMAIN
    /\ HC_PING_DOMAIN' = DEFAULT_HC_PING_DOMAIN
    /\ HC_RW_API_KEY' = DEFAULT_HC_RW_API_KEY
    /\ HC_PING_KEY' = DEFAULT_HC_PING_KEY
    /\ UNCHANGED <<errlog, ninv, cfg_vars, ping_vars, slug_vars>>

Next ==
    \/ Startup
    \/ JobInit
    \/ JobStart
    \/ BackupStart
    \/ GuestLog
    \/ BackupEnd
    \/ BackupAbort
    \/ LogEnd
    \/ JobEnd
    \/ JobAbort
    \/ UnknownPhase
    \/ Exit

Spec == Init /\ [][Next]_vars

(***************************************************************************)
(* What an invocation did, read off the state it ends in                   *)
(***************************************************************************)
\* the invocation of the given phase is over
Done(phase) == pc = "done" /\ PHASE = phase

Job == <<"j", "o", "b">>
Guest == VMID \o <<"-">> \o VMTYPE

\* f"{url}/{pingkey}/{slug}" and "/{report}" when there is one
PingUrlOf(slug_prefix, report) ==
    HC_PING_DOMAIN \o <<"/">> \o HC_PING_KEY \o <<"/">>
    \o slugify(slug_prefix, HC_SLUG_SUFFIX)
    \o (IF report # "" THEN <<"/", report>> ELSE <<>>)

IsPing(c, slug_prefix, report, body) ==
    /\ c.op = "ping"
    /\ c.url = PingUrlOf(slug_prefix, report)
    /\ c.report = report
    /\ c.body = body

IsUpsert(c, slug_prefix, grace) ==
    /\ c.op = "upsert"
    /\ c.url = HC_BASE_DOMAIN \o <<"/api/v3/checks/">>
    /\ c.slug_prefix = slug_prefix
    /\ c.payload.slug = slugify(slug_prefix, HC_SLUG_SUFFIX)
    /\ c.payload.grace = grace

IsLookup(c, slug_prefix) ==
    /\ c.op = "lookup"
    /\ c.url = HC_BASE_DOMAIN \o <<"/api/v3/checks/?slug=">>
               \o slugify(slug_prefix, HC_SLUG_SUFFIX)

\* every call but the last was answered
OnlyLastMayFail == \A i \in 1..(Len(calls) - 1) : calls[i].outcome = "ok"

\* the log is what it was, with more at its end
LogGrew ==
    /\ errlog.exists
    /\ Len(errlog.content) > Len(errlog0.content)
    /\ SubSeq(errlog.content, 1, Len(errlog0.content)) = errlog0.content

\* what this invocation added to the log
LogAdded ==
    SubSeq(errlog.content, Len(errlog0.content) + 1, Len(errlog.content))

(***************************************************************************)
(* job-end                                                                 *)
(***************************************************************************)
\* the ping job-end owes: "fail" with the log when there is one, else the
\* plain ping with the task identifier
IsJobEndPing(c) ==
    IF errlog0.exists
    THEN IsPing(c, Job, "fail", errlog0.content)
    ELSE IsPing(c, Job, "", <<TASK_ID>>)

\* C1 as stated: every job-end invocation sends exactly one ping to the host
\* check, "fail" with the content of the pending log when there is one (and
\* the log is gone afterwards), else with no report and the task identifier.
C1_JobEndAlwaysPings ==
    Done("job-end") =>
        /\ Len(calls) = 1
        /\ IsJobEndPing(calls[1])
        /\ errlog0.exists => ~errlog.exists

\* C1: a job-end invocation sends at most one request, the ping it owes; it
\* ends with status 0 exactly when that ping was sent and answered, and then
\* no log is left; when it ends in a fatal error instead, a log that existed
\* is still there, with its content kept.
C1_JobEnd ==
    Done("job-end") =>
        /\ Len(calls) <= 1
        /\ \A i \in 1..Len(calls) : IsJobEndPing(calls[i])
        /\ exit_code = 0 <=> (Len(calls) = 1 /\ calls[1].outcome = "ok")
        /\ exit_code = 0 => ~errlog.exists
        /\ (exit_code # 0 /\ errlog0.exists) =>
               /\ errlog.exists
               /\ SubSeq(errlog.content, 1, Len(errlog0.content)) = errlog0.content

C1_Witness ==
    /\ Done("job-end")
    /\ errlog0.exists
    /\ Len(calls) = 1
    /\ calls[1].outcome = "ok"
    /\ ~errlog.exists

(***************************************************************************)
(* backup-abort                                                            *)
(***************************************************************************)
\* f"{PHASE}: {vmid}-{vmtype}"
GuestNote == <<PHASE, ": ">> \o Guest

\* the k-th call backup-abort makes
IsAbortCall(k, c) ==
    CASE k = 1 -> IsPing(c, Guest, "fail", GuestNote)
      [] k = 2 -> IsPing(c, Job, "log", GuestNote)
      [] k = 3 -> IsLookup(c, Guest)
      [] OTHER -> FALSE

\* the record of an abort: the dashboard URL of the guest's check in a line
IsAbortRecord(text) ==
    \E u \in PingUrls :
        text = <<TASK_ID, " - ">> \o VMID \o <<" - Backup Abort - ">>
               \o ReplacePing(u) \o <<"/details", "\n">>

\* C2 as stated: every backup-abort invocation issues the three calls (fail
\* ping to the guest check, log ping to the host check, dashboard lookup for
\* the guest check) and appends the URL to the pending log.
C2_AbortAlwaysThreeCalls ==
    Done("backup-abort") =>
        /\ Len(calls) = 3
        /\ \A k \in 1..3 : IsAbortCall(k, calls[k])
        /\ LogGrew
        /\ IsAbortRecord(LogAdded)

\* C2: the calls of a backup-abort invocation are the first calls of: fail
\* ping to the guest check, log ping to the host check, dashboard lookup for
\* the guest check; a call is issued only when every call before it was
\* answered; the invocation ends with status 0 exactly when all three were,
\* and then, and only then, the line with the URL is appended to the log.
C2_AbortCalls ==
    Done("backup-abort") =>
        /\ Len(calls) <= 3
        /\ \A k \in 1..Len(calls) : IsAbortCall(k, calls[k])
        /\ OnlyLastMayFail
        /\ exit_code = 0 <=> (Len(calls) = 3 /\ calls[3].outcome = "ok")
        /\ exit_code = 0 => (LogGrew /\ IsAbortRecord(LogAdded))
        /\ exit_code # 0 => ~(LogGrew /\ IsAbortRecord(LogAdded))

C2_Witness ==
    /\ Done("backup-abort")
    /\ Len(calls) = 3
    /\ calls[3].outcome = "ok"
    /\ IsAbortRecord(LogAdded)

(***************************************************************************)
(* backup-start                                                            *)
(***************************************************************************)
\* f"{NODE}.{domain}.{VMTYPE}.{VMID}.{HOSTNAME}", the domain being what
\* `hostname --domain` printed for main
GuestName ==
    NODE \o <<".">> \o Strip(domain_cmd_main.stdout) \o <<".">> \o VMTYPE
    \o <<".">> \o VMID \o <<".">>
    \o EnvironGet(osenv, "HOSTNAME", <<"u","n","k","n","o","w","n">>)

\* the k-th call backup-start makes
IsStartCall(k, c) ==
    CASE k = 1 -> IsUpsert(c, Guest, 3600) /\ c.payload.name = GuestName
      [] k = 2 -> IsPing(c, Guest, "start", <<>>)
      [] k = 3 -> IsPing(c, Job, "log", GuestNote)
      [] OTHER -> FALSE

\* C3: the calls of a backup-start invocation are, in this order, the upsert
\* of the guest check (grace 3600, slug prefix vmid-vmtype, name
\* node.domain.vmtype.vmid.hostname), the start ping to the guest check and
\* the log ping to the host check with the guest's slug prefix in its body;
\* each is issued only when the one before it was answered, so no start ping
\* without a successful upsert; an invocation that ends with status 0 has
\* issued all three.
C3_BackupStartOrder ==
    Done("backup-start") =>
        /\ Len(calls) <= 3
        /\ \A k \in 1..Len(calls) : IsStartCall(k, calls[k])
        /\ OnlyLastMayFail
        /\ \A k \in 1..Len(calls) :
               (calls[k].op = "ping" /\ calls[k].report = "start") =>
                   (k > 1 /\ calls[1].op = "upsert" /\ calls[1].outcome = "ok")
        /\ exit_code = 0 => Len(calls) = 3

C3_Witness ==
    /\ Done("backup-start")
    /\ Len(calls) = 3
    /\ calls[1].op = "upsert"
    /\ calls[2].report = "start"
    /\ calls[3].outcome = "ok"
    /\ exit_code = 0

(***************************************************************************)
(* job-init                                                                *)
(***************************************************************************)
\* C4 as stated: every job-init invocation issues exactly one upsert, with
\* slug prefix "job" and grace 7200, and nothing else.
C4_InitAlwaysOneUpsert ==
    Done("job-init") =>
        /\ Len(calls) = 1
        /\ IsUpsert(calls[1], Job, 7200)

\* C4: a job-init invocation issues at most one request, an upsert with slug
\* prefix "job" and grace 7200, never a ping or a dashboard lookup; it ends
\* with status 0 exactly when that upsert was issued and answered.
C4_JobInit ==
    Done("job-init") =>
        /\ Len(calls) <= 1
        /\ \A i \in 1..Len(calls) : IsUpsert(calls[i], Job, 7200)
        /\ \A i \in 1..Len(calls) : calls[i].op \notin {"ping", "lookup"}
        /\ exit_code = 0 <=> (Len(calls) = 1 /\ calls[1].outcome = "ok")

C4_Witness ==
    /\ Done("job-init")
    /\ Len(calls) = 1
    /\ calls[1].op = "upsert"
    /\ calls[1].outcome = "ok"
    /\ exit_code = 0

(***************************************************************************)
(* an unknown phase                                                        *)
(***************************************************************************)
DoneUnknown == pc = "done" /\ PHASE # "" /\ PHASE \notin KnownPhases

UnknownWarning ==
    <<"WARNING: '", "Unknown Phase", "' issue.", "\nCONTEXT: ", PHASE, "\n">>

\* the warning is in the log and on standard error
Warned ==
    /\ LogGrew
    /\ LogAdded = UnknownWarning
    /\ stderr = UnknownWarning

\* C5 as stated: every invocation with an unknown phase sends one fail ping
\* to the host check with a body noting the phase, then logs a warning to the
\* pending log and standard error, and does not end in a fatal error.
C5_UnknownAlwaysWarns ==
    DoneUnknown =>
        /\ Len(calls) = 1
        /\ IsPing(calls[1], Job, "fail", <<"UNKNOWN: ", PHASE>>)
        /\ Warned
        /\ exit_code = 0

\* C5: an invocation with an unknown phase issues at most one request, the
\* fail ping to the host check with a body noting the phase; the warning is
\* logged (pending log and standard error) exactly when that ping was
\* answered, and the warning does not end the invocation in an error: the
\* exit status is then 0.
C5_UnknownPhase ==
    DoneUnknown =>
        /\ Len(calls) <= 1
        /\ \A i \in 1..Len(calls) :
               IsPing(calls[i], Job, "fail", <<"UNKNOWN: ", PHASE>>)
        /\ Warned <=> (Len(calls) = 1 /\ calls[1].outcome = "ok")
        /\ Warned => exit_code = 0
        /\ exit_code = 0 => Warned

C5_Witness ==
    /\ DoneUnknown
    /\ Len(calls) = 1
    /\ calls[1].outcome = "ok"
    /\ Warned
    /\ exit_code = 0

(***************************************************************************)
(* a failed call                                                           *)
(***************************************************************************)
\* the request, whatever its answer
Sent(c) == [c EXCEPT !.outcome = "ok"]

\* C6: in every invocation, a request that fails (connection error, timeout
\* or a response that is not 2xx) is the last request of the invocation, was
\* not sent before in it, leaves a FATAL message appended to the pending log,
\* and the invocation ends with a non-zero exit status.
C6_FailedCallIsFatal ==
    pc = "done" =>
        \A i \in 1..Len(calls) :
            calls[i].outcome \in NetFailures =>
                /\ i = Len(calls)
                /\ \A j \in 1..(i - 1) : Sent(calls[j]) # Sent(calls[i])
                /\ LogGrew
                /\ \E k \in 1..Len(LogAdded) : LogAdded[k] = "FATAL: '"
                /\ exited
                /\ ExitStatus(exit_code) # 0

C6_Witness ==
    /\ pc = "done"
    /\ Len(calls) = 2
    /\ calls[1].outcome = "ok"
    /\ calls[2].outcome = "timeout"
    /\ LogGrew
    /\ ExitStatus(exit_code) # 0

(***************************************************************************)
(* the domain                                                              *)
(***************************************************************************)
Failed(cmd) == cmd.state \in {"nonzero", "exception"}

Local == <<"l", "o", "c", "a", "l">>

\* C10 as stated: when `hostname --domain` fails, by a non-zero exit or by an
\* exception, the invocation does not abort, and the domain in the slug
\* suffix and in the name of the guest check is "local".
C10_DomainFallsBackToLocal ==
    /\ (pc \in {"main", "done"} /\ Failed(domain_cmd)) =>
           HC_SLUG_SUFFIX = Lower(NODE) \o <<".">> \o Lower(CLUSTER)
                            \o <<".">> \o Local
    /\ (Done("backup-start") /\ Failed(domain_cmd_main)) =>
           /\ exit_code # 1
           /\ \A i \in 1..Len(calls) :
                  calls[i].op = "upsert" =>
                      calls[i].payload.name =
                          NODE \o <<".">> \o Local \o <<".">> \o VMTYPE
                          \o <<".">> \o VMID \o <<".">>
                          \o EnvironGet(osenv, "HOSTNAME",
                                        <<"u","n","k","n","o","w","n">>)

(***************************************************************************)
(* the pending error log across the invocations of a job                   *)
(***************************************************************************)
\* a is the beginning of b
IsPrefix(a, b) == Len(a) <= Len(b) /\ SubSeq(b, 1, Len(a)) = a

\* the step is the job-end branch of main
JobEndStep == pc = "main" /\ PHASE = "job-end"

\* what a step may do to the log: keep the file and what it holds, adding at
\* its end at most; make the file only by writing to it
LogAppendStep ==
    /\ errlog.exists => errlog'.exists
    /\ IsPrefix(errlog.content, errlog'.content)
    /\ (~errlog.exists /\ errlog'.exists) => errlog'.content # <<>>

\* C11: across the invocations of a job, every step of every invocation
\* leaves the pending error log in place with its content as the beginning
\* of the new content, and creates the file only by a write; the job-end
\* branch alone may instead delete the file, and it never cuts it short.
C11_LogAppendOnly ==
    [][/\ ~JobEndStep => LogAppendStep
       /\ JobEndStep => (LogAppendStep \/ ~errlog'.exists)]_vars

\* a second invocation has added to the log the first one made
C11_Witness ==
    /\ pc = "done"
    /\ PHASE # "job-end"
    /\ errlog0.exists
    /\ errlog.exists
    /\ Len(errlog.content) > Len(errlog0.content)
    /\ IsPrefix(errlog0.content, errlog.content)

\* the invocation that completes the job ran to its end
JobCompleted ==
    /\ pc = "done"
    /\ PHASE \in {"job-end", "job-abort"}
    /\ exit_code = 0

\* C12 as stated, for an invocation that ran to its end: after the job-end
\* or job-abort invocation of a job, no pending error log is left.
C12_NoLogAfterCompletion == JobCompleted => ~errlog.exists

(***************************************************************************)
(* what job-end reports of the job's earlier invocations                   *)
(***************************************************************************)
\* the job's job-end invocation ran to its end
JobEndOver ==
    /\ pc = "done"
    /\ PHASE = "job-end"
    /\ "job-end" \notin history
    /\ exit_code = 0

\* what job-end is to report: an earlier invocation ended through error(),
\* warned, or was a backup-abort
Failures == {"error", "warning", "backup-abort"}

SentFail == \E i \in 1..Len(calls) : calls[i].op = "ping" /\ calls[i].report = "fail"

SentSuccess == \E i \in 1..Len(calls) : calls[i].op = "ping" /\ calls[i].report = ""

\* C13 as stated, for a job-end invocation that ran to its end: when an
\* earlier invocation of the job ended in a fatal error, warned or was a
\* backup-abort, job-end sends the fail ping to the host check and not the
\* success ping; and it sends the success ping only when no invocation of
\* the job wrote to the pending error log.
C13_FailuresReachJobEnd ==
    JobEndOver =>
        /\ history \cap Failures # {} => (SentFail /\ ~SentSuccess)
        /\ SentSuccess => "wrote" \notin history

(***************************************************************************)
(* Configuration on its own: one key supplied, in any layers               *)
(***************************************************************************)
\* the files that say nothing of a key, or give it one value
FilesFor(key, values) ==
    {AbsentFile, [exists |-> TRUE, lines |-> <<>>]}
    \cup {[exists |-> TRUE, lines |-> <<[key |-> key, value |-> v]>>] : v \in values}

CfgInputs ==
    UNION {
      { [key |-> k,
         environ |-> [x \in Keys |-> IF x = k THEN e ELSE Unset],
         fixed_file |-> f,
         args |-> [NoArgs EXCEPT ![ArgOf(k)] = c, !.env_file = p],
         named_file |-> n] :
           e \in {Unset, <<"env">>},
           f \in FilesFor(k, {<<>>, <<"'", "fixed", "'">>}),
           c \in {Unset, <<>>, <<"cli">>},
           p \in {ENV_FILE, "/root/other.env"},
           n \in FilesFor(k, {<<"named">>}) }
      : k \in Keys }

CfgInit ==
    /\ RunIdle
    /\ PingIdle
    /\ SlugIdle
    /\ cfg_in \in CfgInputs
    /\ cfg_pc = "input"

Configure ==
    /\ cfg_pc = "input"
    /\ LET c == ResolveConfig(cfg_in)
       IN  /\ HC_BASE_DOMAIN' = c["HC_BASE_DOMAIN"]
           /\ HC_PING_DOMAIN' = c["HC_PING_DOMAIN"]
           /\ HC_RW_API_KEY' = c["HC_RW_API_KEY"]
           /\ HC_PING_KEY' = c["HC_PING_KEY"]
    /\ cfg_pc' = "resolved"
    /\ UNCHANGED <<run_vars, inv_vars, glob_vars, cfg_in, ping_vars, slug_vars>>

CfgNext == Configure

SpecConfig == CfgInit /\ [][CfgNext]_vars

Effective(key) ==
    CASE key = "HC_BASE_DOMAIN" -> HC_BASE_DOMAIN
      [] key = "HC_PING_DOMAIN" -> HC_PING_DOMAIN
      [] key = "HC_RW_API_KEY" -> HC_RW_API_KEY
      [] key = "HC_PING_KEY" -> HC_PING_KEY

\* what a file supplies for a key: the value of its last line for the key,
\* quotes stripped; Unset when it has none
Supplied(file, key) == load_env_file([k \in Keys |-> Unset], file)[key]

\* the layering defaults -> file -> command line, for a process environment
\* that sets none of the four variables
Layered(in, key) ==
    LET cli == in.args[ArgOf(key)]
        file == IF in.args.env_file # ENV_FILE THEN in.named_file
                ELSE in.fixed_file
        v == Supplied(file, key)
    IN  IF cli # Unset /\ cli # <<>> THEN cli
        ELSE IF v # Unset /\ v # <<>> THEN v
        ELSE DefaultOf(key)

\* C7: each of the four keys takes the command-line value when one is
\* given, otherwise the non-empty value of the configuration file in effect
\* (the fixed path, or the file --env-file names), otherwise the default.
C7_LayeredConfig ==
    (cfg_pc = "resolved" /\ cfg_in.environ[cfg_in.key] = Unset) =>
        \A k \in Keys : Effective(k) = Layered(cfg_in, k)

(***************************************************************************)
(* hc_ping on its own: any arguments, any file, any answer of the network  *)
(***************************************************************************)
PingArgs ==
    [slug_prefix : {<<>>, HC_HOST_SLUG_PREFIX},
     report : {"", "start", "fail", "log", "7", "bogus"},
     file : {"", "/var/log/vzdump/qemu-100.log"},
     data : {<<>>, <<"body">>},
     pingkey : {<<>>, <<"pingkey">>},
     url : {<<"https://hc.example/ping">>}]

FileSizes == {0, TailBytes, TailBytes + 1}

PingInit ==
    /\ RunIdle
    /\ CfgIdle
    /\ SlugIdle
    /\ ping_args \in PingArgs
    /\ ping_pc = "input"

PingCall ==
    /\ ping_pc = "input"
    /\ \E fs \in FileStates, size \in FileSizes, net \in NetOutcomes :
         LET st == hc_ping(Running(errlog), ping_args.slug_prefix,
                           ping_args.report, ping_args.file, ping_args.data,
                           ping_args.pingkey, ping_args.url,
                           [file_state |-> fs, file_size |-> size, net |-> net])
         IN  /\ errlog' = st.errlog
             /\ stderr' = st.stderr
             /\ calls' = st.calls
             /\ exited' = st.exited
             /\ exit_code' = st.exit_code
    /\ ping_pc' = "returned"
    /\ UNCHANGED <<errlog0, inv_vars, hc_vars, glob_vars, cfg_vars, ping_args, slug_vars>>

PingNext == PingCall

SpecPing == PingInit /\ [][PingNext]_vars

\* C8: a ping given both a file and a data body is fatal whatever the slug
\* prefix, report and ping key are, and no HTTP request is sent for it.
C8_FileAndDataFatal ==
    (ping_pc = "returned" /\ ping_args.file # "" /\ ping_args.data # <<>>) =>
        /\ exited
        /\ exit_code = DEFAULT_ERROR_CODE
        /\ ExitStatus(exit_code) # 0
        /\ calls = <<>>
        /\ errlog.exists
        /\ \E i \in 1..Len(errlog.content) : errlog.content[i] = "FATAL: '"

\* both body sources given, every other argument valid
C8_Witness ==
    /\ ping_pc = "returned"
    /\ ping_args.file # "" /\ ping_args.data # <<>>
    /\ ping_args.slug_prefix # <<>> /\ ping_args.pingkey # <<>>
    /\ ping_args.report = "log"
    /\ exited

(***************************************************************************)
(* slugify on its own: any text and suffix, then slugify of the result     *)
(***************************************************************************)
TextsUpTo(n) == UNION {[1..k -> Alphabet] : k \in 0..n}

SlugInit ==
    /\ RunIdle
    /\ CfgIdle
    /\ PingIdle
    /\ slug_text \in TextsUpTo(MaxLen)
    /\ slug_suffix \in TextsUpTo(MaxSuffixLen)
    /\ slug_out = <<>>
    /\ slug_again = <<>>
    /\ slug_pc = "input"

Slugify ==
    /\ slug_pc = "input"
    /\ slug_out' = slugify(slug_text, slug_suffix)
    /\ slug_pc' = "slugified"
    /\ UNCHANGED <<slug_text, slug_suffix, slug_again>>
    /\ UNCHANGED <<run_vars, inv_vars, hc_vars, glob_vars, cfg_vars, ping_vars>>

Reslugify ==
    /\ slug_pc = "slugified"
    /\ slug_again' = slugify(slug_out, <<>>)
    /\ slug_pc' = "reslugified"
    /\ UNCHANGED <<slug_text, slug_suffix, slug_out>>
    /\ UNCHANGED <<run_vars, inv_vars, hc_vars, glob_vars, cfg_vars, ping_vars>>

SlugNext == Slugify \/ Reslugify

SpecSlug == SlugInit /\ [][SlugNext]_vars

\* C9: for every text and suffix, slugify's result holds only characters of
\* [A-Za-z0-9_-], and slugify with no suffix leaves that result unchanged.
C9_SlugCharsetAndFixedPoint ==
    /\ slug_pc \in {"slugified", "reslugified"} =>
          \A i \in 1..Len(slug_out) : slug_out[i] \in SlugChars
    /\ slug_pc = "reslugified" => slug_again = slug_out

\* a text with a space, rewritten, and a suffix with a character outside the
\* pattern, after both applications
C9_Witness ==
    /\ slug_pc = "reslugified"
    /\ \E i \in 1..Len(slug_text) : slug_text[i] = " "
    /\ \E i \in 1..Len(slug_suffix) : slug_suffix[i] \in {".", "/", "é"}
    /\ slug_out # slug_text

=============================================================================
